---- MODULE Spec2Model ----
(***************************************************************************)
(* Model of the stock-analysis orchestrator (src/orchestrator_agent.py):   *)
(* the keyword classifier _assess_complexity, the routing handlers, the    *)
(* synthesis of a multi-step report and the workflow history; and of the   *)
(* stock tools (src/stock_tools.py): price, info, history and analysis.    *)
(*                                                                         *)
(* A text is a sequence of one-character strings, so that lower-casing and *)
(* substring containment are computed as Python computes them.  A result   *)
(* dict is a record whose domain is the dict's key set.                    *)
(***************************************************************************)
EXTENDS Integers, Sequences, FiniteSets, TLC

\* ------------------------------------------------------------- the state
VARIABLES
    junior_agent,      \* self.junior_agent is set (not None)
    master_agent,      \* self.master_agent is set (not None)
    workflow_history,  \* self.workflow_history
    pc,                \* where orchestrate_analysis is: idle or at an await
    entry,             \* the public method the caller entered by
    query,             \* the query of the call
    complexity,        \* the label _assess_complexity returned
    handler,           \* the handler the label selected
    calls,             \* the run() calls of this orchestration, in order
    junior_result,     \* local junior_result / result of the handlers
    master_result,     \* local master_result / result of the handlers
    exc,               \* str(e) of the exception the except branch caught
    result,            \* what the call returned to its caller
    op,                \* the operation that completed last
    returned,          \* what get_workflow_history returned last
    market,            \* the daily bars the data provider holds, oldest first
    tool,              \* the stock tool that ran last
    tool_symbol,       \* its symbol argument
    hist,              \* the frame ticker.history() handed to it
    tool_exc,          \* str(e) of the exception its except branch caught
    tool_result        \* what the tool returned

\* ---------------------------------------------------------------- bounds
\* Longest free-text query, in words drawn from Words.
MaxWords == 2

\* Longest symbol list handed to portfolio_analysis.
MaxSymbols == 2

\* Longest price history, in runs of equal bars (see Series).
MaxRuns == 2

\* ------------------------------------------------------------- the texts
\* str.lower() on one character (ASCII letters; every other character is
\* left as it is).
UpperCase ==
    << "A", "B", "C", "D", "E", "F", "G", "H", "I", "J", "K", "L", "M",
       "N", "O", "P", "Q", "R", "S", "T", "U", "V", "W", "X", "Y", "Z" >>

LowerCase ==
    << "a", "b", "c", "d", "e", "f", "g", "h", "i", "j", "k", "l", "m",
       "n", "o", "p", "q", "r", "s", "t", "u", "v", "w", "x", "y", "z" >>

LowerChar(c) ==
    IF \E i \in 1..Len(UpperCase) : UpperCase[i] = c
    THEN LowerCase[CHOOSE i \in 1..Len(UpperCase) : UpperCase[i] = c]
    ELSE c

\* query.lower()
Lower(s) == <<>> \o [i \in 1..Len(s) |-> LowerChar(s[i])]

\* Python's  keyword in text : kw occurs in s as a contiguous substring.
Contains(kw, s) ==
    \E i \in 1..(Len(s) - Len(kw) + 1) : SubSeq(s, i, i + Len(kw) - 1) = kw

\* Every occurrence counted: text.count(keyword) summed over the keywords.
CountOccurrences(keywords, s) ==
    Cardinality({p \in (1..Len(keywords)) \X (1..Len(s)) :
                    /\ p[2] + Len(keywords[p[1]]) - 1 <= Len(s)
                    /\ SubSeq(s, p[2], p[2] + Len(keywords[p[1]]) - 1)
                           = keywords[p[1]]})

\* sum(1 for keyword in keywords if keyword in text)
CountMatches(keywords, s) ==
    Cardinality({k \in 1..Len(keywords) : Contains(keywords[k], s)})

simple_keywords ==
    << <<"p", "r", "i", "c", "e">>,
       <<"c", "u", "r", "r", "e", "n", "t", " ", "p", "r", "i", "c", "e">>,
       <<"s", "t", "o", "c", "k", " ", "p", "r", "i", "c", "e">>,
       <<"b", "a", "s", "i", "c", " ", "i", "n", "f", "o">>,
       <<"c", "o", "m", "p", "a", "n", "y", " ", "i", "n", "f", "o">>,
       <<"s", "i", "m", "p", "l", "e">>,
       <<"q", "u", "i", "c", "k">>,
       <<"b", "a", "s", "i", "c">> >>

complex_keywords ==
    << <<"a", "n", "a", "l", "y", "s", "i", "s">>,
       <<"c", "o", "m", "p", "r", "e", "h", "e", "n", "s", "i", "v", "e">>,
       <<"s", "t", "r", "a", "t", "e", "g", "i", "c">>,
       <<"r", "e", "c", "o", "m", "m", "e", "n", "d", "a", "t", "i", "o", "n">>,
       <<"i", "n", "v", "e", "s", "t", "m", "e", "n", "t", " ", "t", "h", "e", "s", "i", "s">>,
       <<"r", "i", "s", "k", " ", "a", "s", "s", "e", "s", "s", "m", "e", "n", "t">>,
       <<"p", "o", "r", "t", "f", "o", "l", "i", "o">>,
       <<"s", "e", "c", "t", "o", "r">>,
       <<"m", "a", "r", "k", "e", "t", " ", "o", "u", "t", "l", "o", "o", "k">>,
       <<"c", "o", "m", "p", "a", "r", "a", "t", "i", "v", "e">>,
       <<"d", "e", "t", "a", "i", "l", "e", "d">> >>

simple_count(text) == CountMatches(simple_keywords, Lower(text))

complex_count(text) == CountMatches(complex_keywords, Lower(text))

\* The branch order swapped in the first test (simple_count > complex_count).
AssessSwapped(text) ==
    LET s == simple_count(text)
        c == complex_count(text)
    IN  IF s > c THEN "complex"
        ELSE IF s > 0 /\ c = 0 THEN "simple"
        ELSE "multi_step"

\* The first test made non-strict (complex_count >= simple_count).
AssessNonStrict(text) ==
    LET s == simple_count(text)
        c == complex_count(text)
    IN  IF c >= s THEN "complex"
        ELSE IF s > 0 /\ c = 0 THEN "simple"
        ELSE "multi_step"

\* OrchestratorAgent._assess_complexity, for a str query.
_assess_complexity(text) ==
    LET s == simple_count(text)
        c == complex_count(text)
    IN  IF c > s THEN "complex"
        ELSE IF s > 0 /\ c = 0 THEN "simple"
        ELSE "multi_step"

\* ------------------------------------------------------------ the inputs
W_price == <<"p", "r", "i", "c", "e">>

W_Stock == <<"S", "t", "o", "c", "k", " ">>

W_basic_info == <<"b", "a", "s", "i", "c", " ", "i", "n", "f", "o">>

W_ANALYSIS == <<"A", "N", "A", "L", "Y", "S", "I", "S">>

W_Detailed_Analysis == <<"D", "e", "t", "a", "i", "l", "e", "d", " ", "A", "n", "a", "l", "y", "s", "i", "s", " ">>

W_AAPL == <<"A", "A", "P", "L", " ">>

Words == {W_price, W_Stock, W_basic_info, W_ANALYSIS, W_Detailed_Analysis, W_AAPL}

\* sep.join(parts)
Join(parts, sep) ==
    LET joined[i \in 0..Len(parts)] ==
            IF i = 0 THEN <<>>
            ELSE IF i = 1 THEN parts[1]
            ELSE joined[i - 1] \o sep \o parts[i]
    IN  joined[Len(parts)]

SeqsUpTo(S, n) == UNION {[1..k -> S] : k \in 0..n}

\* The free-text queries: up to MaxWords words written one after another.
Queries == {Join(ws, <<>>) : ws \in SeqsUpTo(Words, MaxWords)}

S_AAPL == <<"A", "A", "P", "L">>

S_MSFT == <<"M", "S", "F", "T">>

Symbols == {S_AAPL, S_MSFT}

SymbolLists == SeqsUpTo(Symbols, MaxSymbols)

PricePrefix == <<"G", "e", "t", " ", "t", "h", "e", " ", "c", "u", "r", "r", "e", "n", "t", " ", "s", "t", "o", "c", "k", " ", "p", "r", "i", "c", "e", " ", "f", "o", "r", " ">>

ComprehensivePrefix == <<"P", "e", "r", "f", "o", "r", "m", " ", "c", "o", "m", "p", "r", "e", "h", "e", "n", "s", "i", "v", "e", " ", "a", "n", "a", "l", "y", "s", "i", "s", " ", "o", "f", " ">>

PortfolioPrefix == <<"A", "n", "a", "l", "y", "z", "e", " ", "t", "h", "i", "s", " ", "p", "o", "r", "t", "f", "o", "l", "i", "o", ":", " ">>

Separator == <<",", " ">>

\* Every text the entry points below hand to orchestrate_analysis.
Texts ==
    Queries
    \cup {PricePrefix \o s : s \in Symbols}
    \cup {ComprehensivePrefix \o s : s \in Symbols}
    \cup {PortfolioPrefix \o Join(l, Separator) : l \in SymbolLists}

\* _assess_complexity reads nothing but its argument; Label tabulates it on
\* the texts above, so that each text is classified once.
Label == [q \in Texts |-> _assess_complexity(q)]

\* A query that is not a str (the annotation is not enforced): None.
NoneQuery == <<"None">>

IsStr(q) == q # NoneQuery

\* ----------------------------------------------------------- the results
\* BaseAgent.name of the orchestrator, set by super().__init__(name=...).
OrchestratorName == "Orchestrator"

\* A local or a return value not assigned yet.
NoResult == [unset |-> TRUE]

\* No exception caught.
NoExc == "no exception"

\* No label assigned (classification has not returned).
NoLabel == "unassigned"

NoHandler == "none"

JuniorText == "AAPL last traded at 189.30"

MasterText == "Thesis: hold; risk is moderate"

FailureText == "Error: the data provider returned NotFound"

\* What an agent's run() hands back: the AgentInvocationResult of the
\* agent contract {agent name, original input, output text, success flag};
\* a failed call still carries an explanation.
AgentResult(agent, input, ok) ==
    [agent   |-> agent,
     input   |-> input,
     output  |-> IF ~ok THEN FailureText
                 ELSE IF agent = "Junior" THEN JuniorText ELSE MasterText,
     success |-> ok]

\* A return value of run() that lacks the 'output' and 'success' keys.
Malformed(agent, input) == [agent |-> agent, input |-> input]

\* Messages of the exceptions a run() may raise.
RunErrors == {"completion service timed out"}

\* str(e) of the AttributeError of None.lower().
AttributeErrorText == "'NoneType' object has no attribute 'lower'"

\* str(KeyError(key)).
KeyErrorText(key) ==
    IF key = "output" THEN "'output'"
    ELSE IF key = "success" THEN "'success'"
    ELSE IF key = "Close" THEN "'Close'"
    ELSE IF key = "Volume" THEN "'Volume'"
    ELSE IF key = "High" THEN "'High'"
    ELSE "'Low'"

\* How a piece of code ends: it returns a value or raises.
Ret(v) == [ret |-> v]

Raise(msg) == [raise |-> msg]

Raised(outcome) == "raise" \in DOMAIN outcome

HasKey(d, key) == key \in DOMAIN d

JuniorBanner == "JUNIOR AGENT ANALYSIS:"

MasterBanner == "MASTER AGENT ANALYSIS:"

SynthesisTitle == "ORCHESTRATED ANALYSIS: "

JuniorHeading == "DATA GATHERING (Junior Agent):"

MasterHeading == "ADVANCED ANALYSIS (Master Agent):"

SynthesisBlock == "SYNTHESIS & RECOMMENDATIONS: ... balanced perspective"

NotesBlock == "IMPORTANT NOTES: ... does not guarantee future results"

\* The except branch of orchestrate_analysis.
ErrorResultSucceeding(q, msg) ==
    [agent   |-> OrchestratorName,
     input   |-> q,
     output  |-> <<"Error in orchestration: ", msg>>,
     success |-> TRUE]

ErrorResult(q, msg) ==
    [agent   |-> OrchestratorName,
     input   |-> q,
     output  |-> <<"Error in orchestration: ", msg>>,
     success |-> FALSE]

\* The early returns of the handlers when an agent is None.
NotInitialized(msg) == [error |-> msg]

\* The part of _handle_simple_query after the await.
SimpleResult(q, r) ==
    IF ~HasKey(r, "output") THEN Raise(KeyErrorText("output"))
    ELSE IF ~HasKey(r, "success") THEN Raise(KeyErrorText("success"))
    ELSE Ret([agent     |-> OrchestratorName,
              input     |-> q,
              output    |-> <<JuniorBanner, r.output>>,
              sub_agent |-> "Junior",
              success   |-> r.success])

\* The part of _handle_complex_query after the await.
ComplexResult(q, r) ==
    IF ~HasKey(r, "output") THEN Raise(KeyErrorText("output"))
    ELSE IF ~HasKey(r, "success") THEN Raise(KeyErrorText("success"))
    ELSE Ret([agent     |-> OrchestratorName,
              input     |-> q,
              output    |-> <<MasterBanner, r.output>>,
              sub_agent |-> "Master",
              success   |-> r.success])

\* The Master section nested under the Junior test: a failed Junior result
\* drops both sections.
SynthesizeNested(j_result, m_result, original_query) ==
    Ret(<<SynthesisTitle>> \o original_query
        \o (IF j_result.success
            THEN <<JuniorHeading, j_result.output>>
                 \o (IF m_result.success
                     THEN <<MasterHeading, m_result.output>> ELSE <<>>)
            ELSE <<>>)
        \o <<SynthesisBlock, NotesBlock>>)

\* OrchestratorAgent._synthesize_results: the report, or the KeyError of the
\* first missing key it reads.
_synthesize_results(j_result, m_result, original_query) ==
    IF ~HasKey(j_result, "success") THEN Raise(KeyErrorText("success"))
    ELSE IF j_result.success /\ ~HasKey(j_result, "output")
    THEN Raise(KeyErrorText("output"))
    ELSE IF ~HasKey(m_result, "success") THEN Raise(KeyErrorText("success"))
    ELSE IF m_result.success /\ ~HasKey(m_result, "output")
    THEN Raise(KeyErrorText("output"))
    ELSE Ret(<<SynthesisTitle>> \o original_query
             \o (IF j_result.success
                 THEN <<JuniorHeading, j_result.output>> ELSE <<>>)
             \o (IF m_result.success
                 THEN <<MasterHeading, m_result.output>> ELSE <<>>)
             \o <<SynthesisBlock, NotesBlock>>)

\* The aggregate flag taken from the Master result alone.
AggregateMasterOnly(j_result, m_result) == m_result.success

\* junior_result['success'] and master_result['success']
AggregateSuccess(j_result, m_result) ==
    j_result.success /\ m_result.success

\* The part of _handle_multi_step_query after both awaits.
MultiStepResult(q, j_result, m_result) ==
    LET synthesis == _synthesize_results(j_result, m_result, q)
    IN  IF Raised(synthesis) THEN synthesis
        ELSE Ret([agent      |-> OrchestratorName,
                  input      |-> q,
                  output     |-> synthesis.ret,
                  sub_agents |-> <<"Junior", "Master">>,
                  success    |-> AggregateSuccess(j_result, m_result)])

\* The elif for "complex" lost: a complex label falls to the else branch.
HandlerWithoutComplex(label) ==
    IF label = "simple" THEN "_handle_simple_query"
    ELSE "_handle_multi_step_query"

\* The if/elif/else of orchestrate_analysis.
Handler(label) ==
    IF label = "simple" THEN "_handle_simple_query"
    ELSE IF label = "complex" THEN "_handle_complex_query"
    ELSE "_handle_multi_step_query"

\* ------------------------------------------------------- the stock tools
\* (src/stock_tools.py)  Prices are whole numbers of cents.  A mean is the
\* exact fraction [num, den]; NaN is the missing value of pandas.
NoTool == "none"

NoFrame == [unset |-> TRUE]

None == [none |-> TRUE]

NaN == [nan |-> TRUE]

Num(n) == [num |-> n]

Str(t) == [str |-> t]

\* str.upper() on one character.
UpperChar(c) ==
    IF \E i \in 1..Len(LowerCase) : LowerCase[i] = c
    THEN UpperCase[CHOOSE i \in 1..Len(LowerCase) : LowerCase[i] = c]
    ELSE c

Upper(s) == <<>> \o [i \in 1..Len(s) |-> UpperChar(s[i])]

S_aapl == <<"a", "a", "p", "l">>

\* The symbols handed to the tools; None stands for a caller that passes no
\* str (the annotation is not enforced).
ToolSymbols == {S_aapl, S_MSFT, NoneQuery}

\* symbol.upper(): a str is upper-cased, None has no such attribute.
SymbolUpper(symbol) ==
    IF IsStr(symbol) THEN Ret(Upper(symbol))
    ELSE Raise("'NoneType' object has no attribute 'upper'")

\* {symbol} inside an f-string: str(symbol).
Shown(symbol) == IF IsStr(symbol) THEN symbol ELSE <<"N", "o", "n", "e">>

\* Messages of the exceptions the data provider may raise.
ProviderErrors == {"HTTPSConnectionPool: Max retries exceeded"}

\* ticker.info as the provider may serve it: every key, no key, the price
\* under its second key only, a price of zero, a price that is no number.
FullInfo ==
    [longName |-> Str("Apple Inc."), sector |-> Str("Technology"),
     industry |-> Str("Consumer Electronics"), marketCap |-> Num(290000),
     currentPrice |-> Num(18930), fiftyTwoWeekHigh |-> Num(19962),
     fiftyTwoWeekLow |-> Num(16408), trailingPE |-> Num(29),
     dividendYield |-> Num(1)]

EmptyInfo == [k \in {} |-> None]

Infos ==
    {FullInfo, EmptyInfo,
     [regularMarketPrice |-> Num(18930)],
     [currentPrice |-> Num(0), regularMarketPrice |-> Num(18930)],
     [currentPrice |-> Str("N/A")]}

InfoOutcomes == {Ret(i) : i \in Infos} \cup {Raise(m) : m \in ProviderErrors}

\* dict.get(key, default)
Get(d, key, default) == IF key \in DOMAIN d THEN d[key] ELSE default

\* bool(value): None, 0 and '' are false.
Truthy(v) == v # None /\ v # Num(0) /\ v # Str("")

\* f"${value:.2f}", f"${value:,}": a number is formatted, a str has no such
\* format code.
Formatted(v, code) ==
    IF "num" \in DOMAIN v THEN Ret([fmt |-> code, of |-> v.num])
    ELSE IF code = "," THEN Raise("Cannot specify ',' with 's'.")
    ELSE Raise("Unknown format code 'f' for object of type 'str'")

\* value * 100: a number is scaled, a str is repeated and stays a str.
Times100(v) == IF "num" \in DOMAIN v THEN Num(v.num * 100) ELSE v

\* info.get(key, 'N/A') as it is printed.
Plain(info, key) == Get(info, key, Str("N/A"))

\* f"${info.get(key, 0):.2f}" if info.get(key) else 'N/A'
Guarded(info, key, code) ==
    IF Truthy(Get(info, key, None))
    THEN Formatted(Get(info, key, Num(0)), code)
    ELSE Ret(Str("N/A"))

\* f"{info.get('dividendYield', 0)*100:.2f}%" if info.get(...) else 'N/A'
GuardedPercent(info, key) ==
    IF Truthy(Get(info, key, None))
    THEN Formatted(Times100(Get(info, key, Num(0))), ".2f%")
    ELSE Ret(Str("N/A"))

\* One trading day of the frame ticker.history() returns; the last bar is
\* bad data, its low above its high.
Bars ==
    {[Low |-> 1, Close |-> 2, High |-> 3, Volume |-> 100],
     [Low |-> 2, Close |-> 3, High |-> 4, Volume |-> 100],
     [Low |-> 3, Close |-> 3, High |-> 3, Volume |-> 100],
     [Low |-> 5, Close |-> 4, High |-> 4, Volume |-> 100]}

\* Days in a row with the same bar: one day, one day short of the 20-day
\* window, one day short of the 50-day window.
RunLengths == {1, 19, 49}

Run(bar, n) == <<>> \o [i \in 1..n |-> bar]

\* The price histories: up to MaxRuns runs, oldest first.
Series ==
    LET S[k \in 0..MaxRuns] ==
            IF k = 0 THEN {<<>>}
            ELSE S[k - 1] \cup
                 {rows \o Run(b, n) : rows \in S[k - 1], b \in Bars,
                                      n \in RunLengths}
    IN  S[MaxRuns]

AllColumns == {"Open", "High", "Low", "Close", "Volume"}

\* The column sets of a served frame: complete, or without 'Close'.
ColumnSets == {AllColumns, AllColumns \ {"Close"}}

\* hist[column] / row[column]: a missing column is a KeyError.
Column(frame, name) ==
    IF name \in frame.columns THEN Ret(name) ELSE Raise(KeyErrorText(name))

Sum(xs) ==
    LET S[i \in 0..Len(xs)] == IF i = 0 THEN 0 ELSE S[i - 1] + xs[i]
    IN  S[Len(xs)]

Min(S) == CHOOSE x \in S : \A y \in S : x <= y

Max(S) == CHOOSE x \in S : \A y \in S : x >= y

Values(rows, name) == <<>> \o [i \in 1..Len(rows) |-> rows[i][name]]

\* Series.tail(n)
RowsTail(xs, n) ==
    IF Len(xs) <= n THEN xs ELSE SubSeq(xs, Len(xs) - n + 1, Len(xs))

\* Series.head(n)
RowsHead(xs, n) == IF Len(xs) <= n THEN xs ELSE SubSeq(xs, 1, n)

MA20Window == 20

MA50Window == 50

RecentWindow == 20

\* Series.rolling(window).mean() at the last row: NaN while fewer than
\* `window` rows exist.
RollingMean(xs, window) ==
    IF Len(xs) < window THEN NaN
    ELSE [num |-> Sum(RowsTail(xs, window)), den |-> window]

\* A price read from the frame, as a fraction.
Exact(n) == [num |-> n, den |-> 1]

IsNaN(x) == "nan" \in DOMAIN x

\* Float comparison: every comparison with NaN is false.
Gt(a, b) == ~IsNaN(a) /\ ~IsNaN(b) /\ a.num * b.den > b.num * a.den

Lt(a, b) == ~IsNaN(a) /\ ~IsNaN(b) /\ a.num * b.den < b.num * a.den

Bullish == "Bullish (Price above 20MA, 20MA above 50MA)"

Bearish == "Bearish (Price below 20MA, 20MA below 50MA)"

Mixed == "Mixed/Neutral"

\* A comparison that takes equal values as ordered.
TrendNonStrict(current_price, ma20, ma50) ==
    IF ~Lt(current_price, ma20) /\ ~Lt(ma20, ma50) THEN Bullish
    ELSE IF ~Gt(current_price, ma20) /\ ~Gt(ma20, ma50) THEN Bearish
    ELSE Mixed

\* The trend branches of StockAnalysisTool._run.
Trend(current_price, ma20, ma50) ==
    IF Gt(current_price, ma20) /\ Gt(ma20, ma50) THEN Bullish
    ELSE IF Lt(current_price, ma20) /\ Lt(ma20, ma50) THEN Bearish
    ELSE Mixed

\* hist['Close'].pct_change().std() * 100, up to its magnitude: NaN with
\* fewer than two day-to-day changes, zero when every change is equal.
Volatility(closes) ==
    IF Len(closes) < 3 THEN NaN
    ELSE IF \A i \in 2..(Len(closes) - 1) :
               closes[i + 1] * closes[i - 1] = closes[i] * closes[i]
         THEN Str("zero")
         ELSE Str("positive")

\* The window taken from the oldest rows.
SupportWindowHead(rows) == RowsHead(rows, RecentWindow)

\* hist[...].tail(20)
SupportWindow(rows) == RowsTail(rows, RecentWindow)

\* hist['Low'].tail(20).min()
Support(rows) ==
    Min({SupportWindow(rows)[i].Low : i \in 1..Len(SupportWindow(rows))})

\* hist['High'].tail(20).max()
Resistance(rows) ==
    Max({SupportWindow(rows)[i].High : i \in 1..Len(SupportWindow(rows))})

\* The indicators of StockAnalysisTool._run on a non-empty frame with every
\* column.
ComputeIndicators(rows) ==
    LET closes        == Values(rows, "Close")
        current_price == Exact(closes[Len(closes)])
        ma20          == RollingMean(closes, MA20Window)
        ma50          == RollingMean(closes, MA50Window)
    IN  [current_price |-> current_price,
         ma20          |-> ma20,
         ma50          |-> ma50,
         trend         |-> Trend(current_price, ma20, ma50),
         volatility    |-> Volatility(closes),
         support       |-> Support(rows),
         resistance    |-> Resistance(rows)]

\* The indicators are a function of the rows alone; tabulated so that each
\* history is analysed once.
Indicators == [rows \in Series \ {<<>>} |-> ComputeIndicators(rows)]

\* The first exception raised by a sequence of evaluations, if any.
FirstRaised(outcomes) ==
    outcomes[Min({i \in 1..Len(outcomes) : Raised(outcomes[i])})]

AnyRaised(outcomes) == \E i \in 1..Len(outcomes) : Raised(outcomes[i])

\* The try block of StockPriceTool._run.
StockPriceBody(symbol, served) ==
    LET up == SymbolUpper(symbol)
    IN  IF Raised(up) THEN up
        ELSE IF Raised(served) THEN served
        ELSE LET info == served.ret
                 current_price ==
                     Get(info, "currentPrice",
                         Get(info, "regularMarketPrice", None))
                 shown == Formatted(current_price, ".2f")
             IN  IF ~Truthy(current_price)
                 THEN Ret([text   |-> "Could not retrieve price for ",
                           symbol |-> up.ret])
                 ELSE IF Raised(shown) THEN shown
                 ELSE Ret([text   |-> "Current price of ",
                           symbol |-> up.ret,
                           price  |-> shown.ret])

\* The try block of StockInfoTool._run.
StockInfoBody(symbol, served) ==
    LET up == SymbolUpper(symbol)
    IN  IF Raised(up) THEN up
        ELSE IF Raised(served) THEN served
        ELSE LET info == served.ret
                 relevant_info ==
                     << Ret(Plain(info, "longName")),
                        Ret(Plain(info, "sector")),
                        Ret(Plain(info, "industry")),
                        Guarded(info, "marketCap", ","),
                        Guarded(info, "currentPrice", ".2f"),
                        Guarded(info, "fiftyTwoWeekHigh", ".2f"),
                        Guarded(info, "fiftyTwoWeekLow", ".2f"),
                        Ret(Plain(info, "trailingPE")),
                        GuardedPercent(info, "dividendYield") >>
             IN  IF AnyRaised(relevant_info) THEN FirstRaised(relevant_info)
                 ELSE Ret([text   |-> "Information for ",
                           symbol |-> up.ret,
                           lines  |-> <<>> \o
                               [i \in 1..Len(relevant_info) |->
                                   relevant_info[i].ret]])

\* The columns a tool reads, in the order it reads them; the first one the
\* frame lacks raises the KeyError.
ReadColumns(frame, names) ==
    <<>> \o [i \in 1..Len(names) |-> Column(frame, names[i])]

DefaultPeriod == "1mo"

\* The try block of StockHistoryTool._run.
StockHistoryBody(symbol, served) ==
    LET up == SymbolUpper(symbol)
    IN  IF Raised(up) THEN up
        ELSE IF Raised(served) THEN served
        ELSE LET frame == served.ret
                 rows  == frame.rows
                 reads == ReadColumns(frame,
                                      <<"Close", "Volume", "High", "Low">>)
             IN  IF rows = <<>>
                 THEN Ret([text   |-> "No historical data found for ",
                           symbol |-> up.ret])
                 ELSE IF AnyRaised(reads) THEN FirstRaised(reads)
                 ELSE LET latest   == rows[Len(rows)]
                          earliest == rows[1]
                      IN  Ret([text   |-> "Historical data for ",
                               symbol |-> up.ret,
                               period |-> DefaultPeriod,
                               latest_close   |-> latest.Close,
                               latest_volume  |-> latest.Volume,
                               period_high    |->
                                   Max({rows[i].High : i \in 1..Len(rows)}),
                               period_low     |->
                                   Min({rows[i].Low : i \in 1..Len(rows)}),
                               price_change   |->
                                   latest.Close - earliest.Close,
                               percent_change |->
                                   [num |-> (latest.Close - earliest.Close)
                                                * 100,
                                    den |-> earliest.Close]])

\* The try block of StockAnalysisTool._run.
StockAnalysisBody(symbol, served) ==
    LET up == SymbolUpper(symbol)
    IN  IF Raised(up) THEN up
        ELSE IF Raised(served) THEN served
        ELSE LET frame == served.ret
                 reads == ReadColumns(frame, <<"Close", "Low", "High">>)
             IN  IF frame.rows = <<>>
                 THEN Ret([text   |-> "No data available for analysis of ",
                           symbol |-> up.ret])
                 ELSE IF AnyRaised(reads) THEN FirstRaised(reads)
                 ELSE Ret([text       |-> "Technical Analysis for ",
                           symbol     |-> up.ret,
                           indicators |-> Indicators[frame.rows]])

\* An error text that names no symbol.
ToolErrorBare(prefix, symbol, msg) == [text |-> prefix, message |-> msg]

\* except Exception as e: return f"Error ... {symbol}: {str(e)}"
ToolError(prefix, symbol, msg) ==
    [text |-> prefix, symbol |-> Shown(symbol), message |-> msg]

\* The frame ticker.history() handed over, if the tool got that far.
Fetched(symbol, served) ==
    IF Raised(SymbolUpper(symbol)) \/ Raised(served) THEN NoFrame
    ELSE served.ret

\* ---------------------------------------------------------- the actions
orchVars == <<junior_agent, master_agent, workflow_history, pc, entry, query,
              complexity, handler, calls, junior_result, master_result, exc,
              result, op, returned>>

toolVars == <<market, tool, tool_symbol, hist, tool_exc, tool_result>>

vars == <<orchVars, toolVars>>

callState == <<entry, query, complexity, handler, calls, junior_result,
               master_result, exc, result>>

\* OrchestratorAgent.__init__
Constructed ==
    /\ junior_agent = FALSE
    /\ master_agent = FALSE
    /\ workflow_history = <<>>
    /\ pc = "idle"
    /\ entry = "none"
    /\ query = <<>>
    /\ complexity = NoLabel
    /\ handler = NoHandler
    /\ calls = <<>>
    /\ junior_result = NoResult
    /\ master_result = NoResult
    /\ exc = NoExc
    /\ result = NoResult
    /\ op = "__init__"
    /\ returned = <<>>

\* No stock tool has run yet.
NoToolRun ==
    /\ tool = NoTool
    /\ tool_symbol = <<>>
    /\ hist = NoFrame
    /\ tool_exc = NoExc
    /\ tool_result = NoResult

\* A fresh orchestrator; the data provider holds no bars.
Init ==
    /\ Constructed
    /\ NoToolRun
    /\ market = <<>>

\* OrchestratorAgent.setup_agents
setup_agents ==
    /\ UNCHANGED toolVars
    /\ junior_agent' = TRUE
    /\ master_agent' = TRUE
    /\ op' = "setup_agents"
    /\ UNCHANGED <<workflow_history, pc, returned, callState>>

\* One run() call, as the agent receives it.
Call(agent, input) == [agent |-> agent, input |-> input]

\* The call ends and the history is replaced by a list of the one result.
CompleteOverwriting(q, outcome) ==
    /\ result' = IF Raised(outcome) THEN ErrorResult(q, outcome.raise)
                 ELSE outcome.ret
    /\ exc' = IF Raised(outcome) THEN outcome.raise ELSE NoExc
    /\ pc' = "idle"
    /\ op' = "orchestrate_analysis"
    /\ workflow_history' = <<result'>>

\* orchestrate_analysis ends: the handler's value is returned, or the except
\* branch turns the exception into an error result.  No statement of the
\* method touches self.workflow_history.
Complete(q, outcome) ==
    /\ result' = IF Raised(outcome) THEN ErrorResult(q, outcome.raise)
                 ELSE outcome.ret
    /\ exc' = IF Raised(outcome) THEN outcome.raise ELSE NoExc
    /\ pc' = "idle"
    /\ op' = "orchestrate_analysis"
    /\ workflow_history' = workflow_history

\* The coroutine is suspended at an await on an agent's run().
Suspend(at) ==
    /\ pc' = at
    /\ result' = NoResult
    /\ exc' = NoExc
    /\ UNCHANGED <<op, workflow_history>>

\* orchestrate_analysis up to its first await (or to its return, when the
\* classification raises or a handler finds its agent missing).
Start(e, q) ==
    /\ UNCHANGED toolVars
    /\ pc = "idle"
    /\ entry' = e
    /\ query' = q
    /\ junior_result' = NoResult
    /\ master_result' = NoResult
    /\ UNCHANGED <<junior_agent, master_agent, returned>>
    /\ IF ~IsStr(q)
       THEN /\ complexity' = NoLabel
            /\ handler' = NoHandler
            /\ calls' = <<>>
            /\ Complete(q, Raise(AttributeErrorText))
       ELSE LET label == Label[q]
                h == Handler(label)
            IN  /\ complexity' = label
                /\ handler' = h
                /\ IF h = "_handle_simple_query"
                   THEN IF ~junior_agent
                        THEN /\ calls' = <<>>
                             /\ Complete(q, Ret(NotInitialized("Junior agent not initialized")))
                        ELSE /\ calls' = <<Call("Junior", q)>>
                             /\ Suspend("junior_run")
                   ELSE IF h = "_handle_complex_query"
                   THEN IF ~master_agent
                        THEN /\ calls' = <<>>
                             /\ Complete(q, Ret(NotInitialized("Master agent not initialized")))
                        ELSE /\ calls' = <<Call("Master", q)>>
                             /\ Suspend("master_run")
                   ELSE IF ~junior_agent \/ ~master_agent
                        THEN /\ calls' = <<>>
                             /\ Complete(q, Ret(NotInitialized("Agents not initialized")))
                        ELSE /\ calls' = <<Call("Junior", q)>>
                             /\ Suspend("junior_run")

\* OrchestratorAgent.orchestrate_analysis(query)
orchestrate_analysis(q) == Start("orchestrate_analysis", q)

\* OrchestratorAgent.get_stock_price(symbol)
get_stock_price(symbol) == Start("get_stock_price", PricePrefix \o symbol)

\* OrchestratorAgent.comprehensive_analysis(symbol)
comprehensive_analysis(symbol) ==
    Start("comprehensive_analysis", ComprehensivePrefix \o symbol)

\* OrchestratorAgent.portfolio_analysis(symbols)
portfolio_analysis(symbols) ==
    Start("portfolio_analysis", PortfolioPrefix \o Join(symbols, Separator))

\* The two agent calls made independent: an exception of Junior's run() is
\* kept as a failed result and the Master call is made all the same.
AwaitJuniorIsolated(outcome) ==
    /\ UNCHANGED toolVars
    /\ pc = "junior_run"
    /\ UNCHANGED <<junior_agent, master_agent, returned, entry, query,
                   complexity, handler, master_result>>
    /\ LET r == IF Raised(outcome)
                THEN [agent |-> "Junior", input |-> query,
                      output |-> outcome.raise, success |-> FALSE]
                ELSE outcome.ret
       IN  /\ junior_result' = r
           /\ IF handler = "_handle_simple_query"
              THEN /\ Complete(query, SimpleResult(query, r))
                   /\ UNCHANGED calls
              ELSE /\ calls' = Append(calls, Call("Master", query))
                   /\ Suspend("master_run")

\* await self.junior_agent.run(query) ends with `outcome`; the handler goes
\* on to its return (simple) or to the Master call (multi-step).
AwaitJunior(outcome) ==
    /\ UNCHANGED toolVars
    /\ pc = "junior_run"
    /\ UNCHANGED <<junior_agent, master_agent, returned, entry, query,
                   complexity, handler, master_result>>
    /\ IF Raised(outcome)
       THEN /\ Complete(query, outcome)
            /\ UNCHANGED <<junior_result, calls>>
       ELSE /\ junior_result' = outcome.ret
            /\ IF handler = "_handle_simple_query"
               THEN /\ Complete(query, SimpleResult(query, outcome.ret))
                    /\ UNCHANGED calls
               ELSE /\ calls' = Append(calls, Call("Master", query))
                    /\ Suspend("master_run")

\* await self.master_agent.run(query) ends with `outcome`; the handler goes
\* on to its return.
AwaitMaster(outcome) ==
    /\ UNCHANGED toolVars
    /\ pc = "master_run"
    /\ UNCHANGED <<junior_agent, master_agent, returned, entry, query,
                   complexity, handler, junior_result, calls>>
    /\ IF Raised(outcome)
       THEN /\ Complete(query, outcome)
            /\ UNCHANGED master_result
       ELSE /\ master_result' = outcome.ret
            /\ IF handler = "_handle_complex_query"
               THEN Complete(query, ComplexResult(query, outcome.ret))
               ELSE Complete(query,
                             MultiStepResult(query, junior_result, outcome.ret))

\* The Junior agent's run() returns its result.
JuniorReturns(ok) == AwaitJunior(Ret(AgentResult("Junior", query, ok)))

\* The Master agent's run() returns its result.
MasterReturns(ok) == AwaitMaster(Ret(AgentResult("Master", query, ok)))

\* OrchestratorAgent.get_workflow_history
get_workflow_history ==
    /\ UNCHANGED toolVars
    /\ returned' = workflow_history
    /\ op' = "get_workflow_history"
    /\ UNCHANGED <<junior_agent, master_agent, workflow_history, pc, callState>>

\* OrchestratorAgent.clear_workflow_history
clear_workflow_history ==
    /\ UNCHANGED toolVars
    /\ workflow_history' = <<>>
    /\ op' = "clear_workflow_history"
    /\ UNCHANGED <<junior_agent, master_agent, pc, returned, callState>>

Next ==
    \/ setup_agents
    \/ \E q \in Queries : orchestrate_analysis(q)
    \/ \E s \in Symbols : get_stock_price(s)
    \/ \E s \in Symbols : comprehensive_analysis(s)
    \/ \E l \in SymbolLists : portfolio_analysis(l)
    \/ \E ok \in BOOLEAN : JuniorReturns(ok)
    \/ \E ok \in BOOLEAN : MasterReturns(ok)
    \/ get_workflow_history
    \/ clear_workflow_history

\* The orchestrator with agents that keep the agent contract.
Spec == Init /\ [][Next]_vars

\* The Junior agent's run() raises.
JuniorRaises(msg) == AwaitJunior(Raise(msg))

\* The Master agent's run() raises.
MasterRaises(msg) == AwaitMaster(Raise(msg))

\* The Junior agent's run() returns a dict without the expected keys.
JuniorReturnsMalformed == AwaitJunior(Ret(Malformed("Junior", query)))

\* The Master agent's run() returns a dict without the expected keys.
MasterReturnsMalformed == AwaitMaster(Ret(Malformed("Master", query)))

\* orchestrate_analysis(None)
OrchestrateNonString == orchestrate_analysis(NoneQuery)

NextExc ==
    \/ Next
    \/ OrchestrateNonString
    \/ \E msg \in RunErrors : JuniorRaises(msg)
    \/ \E msg \in RunErrors : MasterRaises(msg)
    \/ JuniorReturnsMalformed
    \/ MasterReturnsMalformed

\* The orchestrator with agents and callers that may break their contracts:
\* every way the try block of orchestrate_analysis can raise.
SpecExc == Init /\ [][NextExc]_vars

\* ------------------------------------------------- the stock tools run
\* A tool's _run ends: what its try block returned, or the error text of
\* its except branch.
ToolReturns(name, symbol, frame, outcome, prefix) ==
    /\ tool' = name
    /\ tool_symbol' = symbol
    /\ hist' = frame
    /\ tool_exc' = IF Raised(outcome) THEN outcome.raise ELSE NoExc
    /\ tool_result' = IF Raised(outcome)
                      THEN ToolError(prefix, symbol, outcome.raise)
                      ELSE outcome.ret
    /\ UNCHANGED <<orchVars, market>>

\* StockPriceTool._run
StockPriceTool(symbol, served) ==
    ToolReturns("get_stock_price", symbol, NoFrame,
                StockPriceBody(symbol, served),
                "Error getting stock price for ")

\* StockInfoTool._run
StockInfoTool(symbol, served) ==
    ToolReturns("get_stock_info", symbol, NoFrame,
                StockInfoBody(symbol, served),
                "Error getting stock info for ")

\* StockHistoryTool._run
StockHistoryTool(symbol, served) ==
    ToolReturns("get_stock_history", symbol, Fetched(symbol, served),
                StockHistoryBody(symbol, served),
                "Error getting stock history for ")

\* StockAnalysisTool._run
StockAnalysisTool(symbol, served) ==
    ToolReturns("analyze_stock", symbol, Fetched(symbol, served),
                StockAnalysisBody(symbol, served),
                "Error analyzing stock ")

\* What ticker.history() may do: hand over the provider's bars, with every
\* column or without 'Close', or raise.
HistoryOutcomes ==
    {Ret([columns |-> c, rows |-> market]) : c \in ColumnSets}
    \cup {Raise(m) : m \in ProviderErrors}

NextTools ==
    \/ \E symbol \in ToolSymbols, served \in InfoOutcomes :
          StockPriceTool(symbol, served)
    \/ \E symbol \in ToolSymbols, served \in InfoOutcomes :
          StockInfoTool(symbol, served)
    \/ \E symbol \in ToolSymbols, served \in HistoryOutcomes :
          StockHistoryTool(symbol, served)
    \/ \E symbol \in ToolSymbols, served \in HistoryOutcomes :
          StockAnalysisTool(symbol, served)

\* A fresh orchestrator beside a data provider that holds some history.
InitTools ==
    /\ Constructed
    /\ NoToolRun
    /\ market \in Series

\* The stock tools, called in any order on the provider's history.
SpecTools == InitTools /\ [][NextTools]_vars


\* ------------------------------------------------------------ properties
\* A call of orchestrate_analysis has just returned to its caller.
Done == pc = "idle" /\ op = "orchestrate_analysis"

\* setup_agents has run: both sub-agents are set.
Ready == junior_agent /\ master_agent

\* The returned dict is one of the handlers' early {"error": ...} returns.
IsErrorDict(r) == HasKey(r, "error")

HasPart(text, part) == \E i \in 1..Len(text) : text[i] = part

PartIndex(text, part) == CHOOSE i \in 1..Len(text) : text[i] = part

IsPrefix(a, b) == Len(a) <= Len(b) /\ SubSeq(b, 1, Len(a)) = a

\* C1: with both sub-agents initialized, a returned orchestration has called
\* exactly the agents its label selects: simple -> Junior.run once and no
\* Master.run; complex -> Master.run once and no Junior.run; multi_step ->
\* Junior.run once, then Master.run once, both with the original query.
C1_CallsFollowLabel ==
    (Done /\ Ready) =>
        calls = IF complexity = "simple" THEN <<Call("Junior", query)>>
                ELSE IF complexity = "complex" THEN <<Call("Master", query)>>
                ELSE <<Call("Junior", query), Call("Master", query)>>

\* A multi-step orchestration returned after calling Junior, then Master.
C1_Witness ==
    /\ Done /\ Ready
    /\ complexity = "multi_step"
    /\ calls = <<Call("Junior", query), Call("Master", query)>>
    /\ HasKey(result, "sub_agents")

\* C2: the label is complex whenever complex_count > simple_count, and
\* simple whenever simple_count > 0 and complex_count = 0.
C2_ComplexAndSimple ==
    complexity # NoLabel =>
        /\ complex_count(query) > simple_count(query) => complexity = "complex"
        /\ (simple_count(query) > 0 /\ complex_count(query) = 0)
               => complexity = "simple"

\* A query with more complex matches than simple ones, the simple count not
\* zero, was labelled complex.
C2_Witness ==
    /\ complexity = "complex"
    /\ simple_count(query) > 0
    /\ complex_count(query) > simple_count(query)

\* C3: the label is multi_step for the empty string, for a query matching no
\* keyword, for equal nonzero counts, and in general whenever
\* 0 < complex_count <= simple_count.
C3_MultiStep ==
    complexity # NoLabel =>
        /\ query = <<>> => complexity = "multi_step"
        /\ (simple_count(query) = 0 /\ complex_count(query) = 0)
               => complexity = "multi_step"
        /\ (simple_count(query) = complex_count(query) /\ simple_count(query) > 0)
               => complexity = "multi_step"
        /\ (0 < complex_count(query) /\ complex_count(query) <= simple_count(query))
               => complexity = "multi_step"

\* A query with equal nonzero counts was labelled multi_step.
C3_Witness ==
    /\ entry = "orchestrate_analysis"
    /\ complexity = "multi_step"
    /\ simple_count(query) = complex_count(query)
    /\ simple_count(query) > 0

\* C4: a returned multi-step orchestration whose two calls returned results
\* has success = (Junior success AND Master success); a simple or complex
\* one has the success flag of the one agent it called.
C4_AggregateSuccess ==
    (Done /\ ~IsErrorDict(result) /\ exc = NoExc) =>
        result.success =
            IF handler = "_handle_simple_query" THEN junior_result.success
            ELSE IF handler = "_handle_complex_query" THEN master_result.success
            ELSE junior_result.success /\ master_result.success

\* A multi-step orchestration returned with a failed Junior result and a
\* successful Master result.
C4_Witness ==
    /\ Done
    /\ handler = "_handle_multi_step_query"
    /\ HasKey(junior_result, "success") /\ ~junior_result.success
    /\ HasKey(master_result, "success") /\ master_result.success
    /\ result.success = FALSE

\* C5: the synthesized output of a multi-step orchestration holds the Junior
\* section iff Junior's result succeeded and the Master section iff
\* Master's did, each whatever the other did; each section carries its
\* agent's output, and the Junior section comes first when both are there.
C5_SectionsFollowSuccess ==
    (Done /\ handler = "_handle_multi_step_query"
          /\ ~IsErrorDict(result) /\ exc = NoExc) =>
        LET out == result.output
        IN  /\ HasPart(out, JuniorHeading) <=> junior_result.success
            /\ HasPart(out, MasterHeading) <=> master_result.success
            /\ junior_result.success =>
                   out[PartIndex(out, JuniorHeading) + 1] = junior_result.output
            /\ master_result.success =>
                   out[PartIndex(out, MasterHeading) + 1] = master_result.output
            /\ (junior_result.success /\ master_result.success) =>
                   PartIndex(out, JuniorHeading) < PartIndex(out, MasterHeading)

\* Junior failed and Master succeeded: the report holds Master's section and
\* no Junior section.
C5_Witness ==
    /\ Done
    /\ handler = "_handle_multi_step_query"
    /\ HasKey(junior_result, "success") /\ ~junior_result.success
    /\ HasKey(master_result, "success") /\ master_result.success
    /\ HasPart(result.output, MasterHeading)
    /\ ~HasPart(result.output, JuniorHeading)

\* An agent the selected handler needs is None.
RequiredAgentMissing ==
    IF handler = "_handle_simple_query" THEN ~junior_agent
    ELSE IF handler = "_handle_complex_query" THEN ~master_agent
    ELSE ~junior_agent \/ ~master_agent

\* C6: a call made while an agent of the selected route is uninitialized
\* calls no agent and returns an error result with success = false and an
\* output text.
C6_UninitializedIsFailure ==
    (Done /\ handler # NoHandler /\ RequiredAgentMissing) =>
        /\ calls = <<>>
        /\ HasKey(result, "success") /\ result.success = FALSE
        /\ HasKey(result, "output")

\* This step is a call of orchestrate_analysis returning to its caller.
Completes ==
    /\ pc' = "idle"
    /\ op' = "orchestrate_analysis"
    /\ pc # "idle" \/ op # "orchestrate_analysis" \/ callState' # callState

\* C7: every completed orchestrate_analysis call makes the workflow history
\* longer by exactly one entry, the result of the call.
C7_HistoryGrowsByOne ==
    [][Completes => workflow_history' = Append(workflow_history, result')]_vars

\* This step is clear_workflow_history.
Clears ==
    /\ op' = "clear_workflow_history"
    /\ UNCHANGED <<pc, callState, returned, junior_agent, master_agent>>

\* C8: the workflow history is append-only: a step that is not
\* clear_workflow_history keeps every entry in its place, and
\* clear_workflow_history leaves the history empty, also when it was empty.
C8_AppendOnlyUntilCleared ==
    [][/\ Clears => workflow_history' = <<>>
       /\ ~Clears => IsPrefix(workflow_history, workflow_history')]_vars

\* clear_workflow_history ran after an orchestration had returned, and the
\* accessor had been read before.
C8_Witness ==
    /\ op = "clear_workflow_history"
    /\ pc = "idle"
    /\ result # NoResult
    /\ returned = <<>>
    /\ workflow_history = <<>>

\* C9: a call in which the classification or an agent's run() raised, or a
\* run() returned a dict without the expected keys, still returns: the
\* result has agent = the orchestrator's name, input = the query, success =
\* false and an output text that holds the exception's message.
C9_ExceptionBecomesResult ==
    Done =>
        /\ result # NoResult
        /\ ((junior_result # NoResult /\ ~HasKey(junior_result, "success"))
            \/ (master_result # NoResult /\ ~HasKey(master_result, "success"))
            \/ ~IsStr(query)) => exc # NoExc
        /\ exc # NoExc =>
               /\ DOMAIN result = {"agent", "input", "output", "success"}
               /\ result.agent = OrchestratorName
               /\ result.input = query
               /\ result.success = FALSE
               /\ Len(result.output) > 0
               /\ HasPart(result.output, exc)

\* The Master agent's run() raised after Junior had returned: the caller got
\* the failure result.
C9_Witness ==
    /\ Done
    /\ exc \in RunErrors
    /\ junior_result # NoResult
    /\ master_result = NoResult
    /\ Len(calls) = 2
    /\ result.success = FALSE

\* C10: portfolio_analysis, with both agents initialized, calls Junior.run
\* and Master.run and returns the multi-step synthesis naming both.
C10_PortfolioUsesBothAgents ==
    (Done /\ Ready /\ entry = "portfolio_analysis") =>
        /\ calls = <<Call("Junior", query), Call("Master", query)>>
        /\ HasKey(result, "sub_agents")

\* analyze_stock returned indicators computed from the frame it fetched.
Analysed ==
    /\ tool = "analyze_stock"
    /\ HasKey(tool_result, "indicators")

\* C11: the trend label is one of three, whatever the prices: Bullish iff
\* close > MA20 and MA20 > MA50, Bearish iff close < MA20 and MA20 < MA50,
\* Mixed/Neutral otherwise; an equality anywhere, and a moving average that
\* is undefined for want of 20 or 50 observations, gives Mixed/Neutral with
\* no error.
C11_TrendPartition ==
    Analysed =>
        LET rows   == hist.rows
            n      == Len(rows)
            close  == rows[n].Close
            closes == Values(rows, "Close")
            s20    == Sum(RowsTail(closes, 20))
            s50    == Sum(RowsTail(closes, 50))
            up     == n >= 50 /\ 20 * close > s20 /\ 50 * s20 > 20 * s50
            down   == n >= 50 /\ 20 * close < s20 /\ 50 * s20 < 20 * s50
            trend  == tool_result.indicators.trend
        IN  /\ trend \in {Bullish, Bearish, Mixed}
            /\ trend = Bullish <=> up
            /\ trend = Bearish <=> down
            /\ trend = Mixed <=> (~up /\ ~down)
            /\ n < 50 => trend = Mixed
            /\ (n >= 50 /\ (20 * close = s20 \/ 50 * s20 = 20 * s50))
                   => trend = Mixed
            /\ tool_exc = NoExc

\* Fifty observations whose last close is above the 20-day average, itself
\* above the 50-day average: Bullish.
C11_Witness ==
    /\ Analysed
    /\ Len(hist.rows) = 50
    /\ Gt(tool_result.indicators.current_price, tool_result.indicators.ma20)
    /\ Gt(tool_result.indicators.ma20, tool_result.indicators.ma50)
    /\ tool_result.indicators.trend = Bullish

\* C12: on a non-empty series whose every low is at most its high, support
\* is at most every low and resistance at least every high of the trailing
\* min(20, n) observations, each is attained there, and support <=
\* resistance.
C12_SupportResistance ==
    (Analysed /\ \A i \in 1..Len(hist.rows) :
                     hist.rows[i].Low <= hist.rows[i].High) =>
        LET rows       == hist.rows
            n          == Len(rows)
            w          == IF n < 20 THEN n ELSE 20
            window     == (n - w + 1)..n
            support    == tool_result.indicators.support
            resistance == tool_result.indicators.resistance
        IN  /\ n > 0
            /\ \A i \in window : support <= rows[i].Low
            /\ \A i \in window : resistance >= rows[i].High
            /\ \E i \in window : support = rows[i].Low
            /\ \E i \in window : resistance = rows[i].High
            /\ support <= resistance

\* More than 20 observations, support below resistance, and an observation
\* older than the window whose low is under the support.
C12_Witness ==
    /\ Analysed
    /\ Len(hist.rows) > 20
    /\ tool_result.indicators.support < tool_result.indicators.resistance
    /\ \E i \in 1..(Len(hist.rows) - 20) :
           hist.rows[i].Low < tool_result.indicators.support

\* C13: each of get_stock_price, get_stock_info, get_stock_history and
\* analyze_stock returns a text whatever happens: an empty series makes
\* get_stock_history and analyze_stock return their no-data text with no
\* indicator computed, and an exception of the provider or of the
\* computation comes back as the tool's error text carrying the symbol and
\* the exception's message.
C13_ToolsNeverRaise ==
    tool # NoTool =>
        /\ tool \in {"get_stock_price", "get_stock_info",
                     "get_stock_history", "analyze_stock"}
        /\ ~HasKey(tool_result, "raise")
        /\ HasKey(tool_result, "text")
        /\ tool_exc # NoExc =>
               /\ tool_result.text =
                      IF tool = "get_stock_price"
                      THEN "Error getting stock price for "
                      ELSE IF tool = "get_stock_info"
                      THEN "Error getting stock info for "
                      ELSE IF tool = "get_stock_history"
                      THEN "Error getting stock history for "
                      ELSE "Error analyzing stock "
               /\ HasKey(tool_result, "symbol")
               /\ tool_result.symbol = Shown(tool_symbol)
               /\ tool_result.message = tool_exc
        /\ (HasKey(hist, "rows") /\ hist.rows = <<>>) =>
               /\ tool_exc = NoExc
               /\ tool_result =
                      [text   |-> IF tool = "get_stock_history"
                                  THEN "No historical data found for "
                                  ELSE "No data available for analysis of ",
                       symbol |-> Upper(tool_symbol)]

\* analyze_stock met a frame with rows but no 'Close' column: the KeyError
\* came back as its error text.
C13_Witness ==
    /\ tool = "analyze_stock"
    /\ HasKey(hist, "rows")
    /\ hist.rows # <<>>
    /\ tool_exc = KeyErrorText("Close")
    /\ tool_result = [text    |-> "Error analyzing stock ",
                      symbol  |-> Shown(tool_symbol),
                      message |-> tool_exc]

\* C14: in a multi-step orchestration Master.run starts only after
\* Junior.run has returned; when Junior.run raises, Master.run is never
\* called and the call returns the 'Error in orchestration' failure result
\* with no Master section; when Junior.run returns success = false,
\* Master.run is still called.
C14_MasterAfterJunior ==
    handler = "_handle_multi_step_query" =>
        /\ HasPart(calls, Call("Master", query)) =>
               /\ calls = <<Call("Junior", query), Call("Master", query)>>
               /\ junior_result # NoResult
               /\ \/ junior_result = Malformed("Junior", query)
                  \/ \E ok \in BOOLEAN :
                         junior_result = AgentResult("Junior", query, ok)
        /\ (Done /\ Ready /\ junior_result = NoResult) =>
               /\ exc # NoExc
               /\ calls = <<Call("Junior", query)>>
               /\ master_result = NoResult
               /\ result.success = FALSE
               /\ result.output = <<"Error in orchestration: ", exc>>
               /\ ~HasPart(result.output, MasterHeading)
        /\ (pc = "idle" /\ HasKey(junior_result, "success")
                /\ ~junior_result.success) =>
               calls = <<Call("Junior", query), Call("Master", query)>>

\* Junior's run() raised in a multi-step orchestration: the call returned
\* the failure result and Master was not called.
C14_Witness ==
    /\ Done /\ Ready
    /\ handler = "_handle_multi_step_query"
    /\ exc \in RunErrors
    /\ junior_result = NoResult
    /\ calls = <<Call("Junior", query)>>
    /\ result.success = FALSE

K_stock_price == simple_keywords[3]

K_basic_info == simple_keywords[4]

\* C15: the counts are numbers of distinct keywords present: a keyword that
\* occurs twice counts once, so 0 <= simple_count <= 8 and
\* 0 <= complex_count <= 11; keywords inside one another count each (a
\* query holding 'stock price' has simple_count >= 2), so an overlapping
\* simple phrase with one complex keyword is multi_step, not complex; and
\* the label is a function of the query text alone.
C15_DistinctKeywordCounts ==
    complexity # NoLabel =>
        /\ simple_count(query) \in 0..8
        /\ complex_count(query) \in 0..11
        /\ Lower(query) = W_price \o W_price => simple_count(query) = 1
        /\ Contains(K_stock_price, Lower(query)) => simple_count(query) >= 2
        /\ ((Contains(K_stock_price, Lower(query))
                \/ Contains(K_basic_info, Lower(query)))
            /\ complex_count(query) = 1) => complexity = "multi_step"
        /\ complexity = _assess_complexity(query)

\* 'basic info' (which also holds 'basic') with one complex keyword was
\* labelled multi_step by a call that has returned.
C15_Witness ==
    /\ Done
    /\ query = W_basic_info \o W_ANALYSIS
    /\ simple_count(query) = 2
    /\ complex_count(query) = 1
    /\ complexity = "multi_step"

====
